---- MODULE Spec2Model ----
(***************************************************************************)
(* Document Parsing API: the text-field extraction engine of main.py       *)
(* (extract_vendor, extract_date, extract_total), the batch driver of      *)
(* BatchProcessor.py and the request path of main.py (API-key middleware   *)
(* and the handlers' persistence sessions).                                *)
(*                                                                         *)
(* A Python str is a tuple of one-character strings; a regular expression  *)
(* is an operator that tries its alternatives in the order of Python's     *)
(* backtracking matcher (leftmost start, greedy quantifiers first) and     *)
(* returns the last index of the match, or 0 when there is none.           *)
(***************************************************************************)
EXTENDS Integers, Sequences, FiniteSets, TLC

VARIABLES
    text,               \* the OCR text handed to the extraction engine
    pc,                 \* position in the running operation
    vendor,             \* extract_vendor: chosen
    vendor_candidates,  \* extract_vendor: candidates
    date,               \* extract_date: result
    total,              \* extract_total: chosen
    total_candidates,   \* extract_total: candidates
    folder,             \* process_invoices: the files of the folder, as os.listdir lists them
    file_index,         \* process_invoices: how many of them the loop has taken
    images,             \* process_invoices: pages of the current file still to read
    results,            \* process_invoices: results
    output_csv,         \* process_invoices: the rows written, <<>> before the save
    api_key,            \* os.getenv("API_KEY")
    request,            \* the request being served
    response,           \* the status code of the response to it, 0 before
    handler_called,     \* whether call_next ran the route handler for it
    open_sessions,      \* sessions SessionLocal() returned and nobody closed
    db,                 \* the invoices table
    served              \* requests answered so far

engineVars == <<text, vendor, vendor_candidates, date, total, total_candidates>>

batchVars == <<folder, file_index, images, results, output_csv>>

httpVars == <<api_key, request, response, handler_called, open_sessions, db, served>>

vars == <<pc, engineVars, batchVars, httpVars>>

(***************************************************************************)
(* Characters and str helpers                                              *)
(***************************************************************************)
Digit == {"0", "1", "2", "3", "4", "5", "6", "7", "8", "9"}

LowerLetters == <<"a", "b", "c", "d", "e", "f", "g", "h", "i", "j", "k", "l", "m", "n", "o", "p", "q", "r", "s", "t", "u", "v", "w", "x", "y", "z">>

UpperLetters == <<"A", "B", "C", "D", "E", "F", "G", "H", "I", "J", "K", "L", "M", "N", "O", "P", "Q", "R", "S", "T", "U", "V", "W", "X", "Y", "Z">>

Range(f) == {f[i] : i \in DOMAIN f}

\* the function f over 1..n as a tuple (the representation of every str here)
Tuple(f) == <<>> \o f

Lower == Range(LowerLetters)

Upper == Range(UpperLetters)

\* str.isspace / \s
Whitespace == {" ", "\n", "\r", "\t"}

\* the line boundaries str.splitlines knows
LineBreak == {"\n", "\r"}

IsDigit(c) == c \in Digit

IsAlpha(c) == c \in Lower \cup Upper

\* \w
IsWord(c) == IsAlpha(c) \/ IsDigit(c) \/ c = "_"

IsSpace(c) == c \in Whitespace

Min(a, b) == IF a < b THEN a ELSE b

Max(a, b) == IF a > b THEN a ELSE b

\* the character at 1-based index i, "" outside the string
At(s, i) == IF i \in 1..Len(s) THEN s[i] ELSE ""

\* str.lower on one character
LowerChar(c) ==
    IF c \in Upper
    THEN LowerLetters[CHOOSE i \in 1..26 : UpperLetters[i] = c]
    ELSE c

\* str.upper on one character
UpperChar(c) ==
    IF c \in Lower
    THEN UpperLetters[CHOOSE i \in 1..26 : LowerLetters[i] = c]
    ELSE c

\* str.upper
UpperStr(s) == Tuple([i \in 1..Len(s) |-> UpperChar(s[i])])

\* str.lower
LowerStr(s) == Tuple([i \in 1..Len(s) |-> LowerChar(s[i])])

\* the literal w at index i of s
MatchesAt(s, i, w) ==
    /\ i >= 1
    /\ i + Len(w) - 1 <= Len(s)
    /\ \A k \in 1..Len(w) : s[i + k - 1] = w[k]

\* the literal w at index i of s under re.IGNORECASE
MatchesAtCI(s, i, w) ==
    /\ i >= 1
    /\ i + Len(w) - 1 <= Len(s)
    /\ \A k \in 1..Len(w) : LowerChar(s[i + k - 1]) = LowerChar(w[k])

\* str.endswith
EndsWith(s, w) == Len(w) <= Len(s) /\ SubSeq(s, Len(s) - Len(w) + 1, Len(s)) = w

\* w in s
Contains(s, w) == \E i \in 1..Len(s) : MatchesAt(s, i, w)

\* str.replace(a, b) for one-character a and b
ReplaceChar(s, a, b) == Tuple([i \in 1..Len(s) |-> IF s[i] = a THEN b ELSE s[i]])

\* the characters of s that satisfy keep, in order
FilterChars(s, keep) == SelectSeq(s, LAMBDA c : c \in keep)

\* str.count for a one-character needle
CountChar(s, c) == Cardinality({i \in 1..Len(s) : s[i] = c})

\* str.rfind for a one-character needle, 1-based, 0 when absent
RFind(s, c) ==
    IF \E i \in 1..Len(s) : s[i] = c
    THEN CHOOSE i \in 1..Len(s) : s[i] = c /\ \A j \in (i + 1)..Len(s) : s[j] # c
    ELSE 0

\* str.strip
Strip(s) ==
    IF \A i \in 1..Len(s) : IsSpace(s[i]) THEN <<>>
    ELSE LET a == CHOOSE i \in 1..Len(s) :
                      ~IsSpace(s[i]) /\ \A j \in 1..(i - 1) : IsSpace(s[j])
             b == CHOOSE i \in 1..Len(s) :
                      ~IsSpace(s[i]) /\ \A j \in (i + 1)..Len(s) : IsSpace(s[j])
         IN SubSeq(s, a, b)

\* \b at the gap before index i
WordBoundary(s, i) == IsWord(At(s, i - 1)) # IsWord(At(s, i))

\* n digits starting at index p
DigitsAt(s, p, n) == \A k \in 0..(n - 1) : IsDigit(At(s, p + k))

\* the least element of a non-empty set of numbers
Least(set) == CHOOSE k \in set : \A j \in set : k <= j

\* the length of the run from index p to the first of the indices stops, or to
\* the end n of the string
RunUntil(stops, p, n) == IF stops = {} THEN n - p + 1 ELSE Least(stops) - p

\* the length of the run of characters from index p that are in (inSet) or not in the set
RunLength(s, p, set, inSet) ==
    IF p > Len(s) \/ p < 1 THEN 0
    ELSE RunUntil({k \in p..Len(s) : (s[k] \in set) # inSet}, p, Len(s))

\* int() of one digit (0 for any other character)
DigitValue(c) == IF c \in Digit THEN CHOOSE d \in 0..9 : <<"0", "1", "2", "3", "4", "5", "6", "7", "8", "9">>[d + 1] = c ELSE 0

\* int() of a string of digits
RECURSIVE DigitsValue(_)
DigitsValue(s) ==
    IF s = <<>> THEN 0
    ELSE 10 * DigitsValue(SubSeq(s, 1, Len(s) - 1)) + DigitValue(s[Len(s)])

\* the decimal digits of n >= 0, at least width of them (zero-padded)
RECURSIVE DigitsOf(_, _)
DigitsOf(n, width) ==
    IF n < 10 /\ width <= 1 THEN <<<<"0", "1", "2", "3", "4", "5", "6", "7", "8", "9">>[n + 1]>>
    ELSE DigitsOf(n \div 10, width - 1) \o <<<<"0", "1", "2", "3", "4", "5", "6", "7", "8", "9">>[(n % 10) + 1]>>

(***************************************************************************)
(* Values shared by the three programs                                     *)
(***************************************************************************)
\* Python's None and a str, as the values an optional str takes
PyNone == [is_none |-> TRUE, value |-> <<>>]

PyStr(v) == [is_none |-> FALSE, value |-> v]

NoRequest == [path |-> "", client_key |-> PyNone, upload |-> <<>>]

otherVars == <<batchVars, httpVars>>

\* the batch driver before process_invoices is called
BatchIdle ==
    /\ folder = <<>>
    /\ file_index = 0
    /\ images = <<>>
    /\ results = <<>>
    /\ output_csv = <<>>

\* the service before any request
HttpIdle ==
    /\ api_key = PyNone
    /\ request = NoRequest
    /\ response = 0
    /\ handler_called = FALSE
    /\ open_sessions = 0
    /\ db = <<>>
    /\ served = 0

\* the engine's results before any extractor has run
NoResults ==
    /\ vendor = <<>>
    /\ vendor_candidates = <<>>
    /\ date = <<>>
    /\ total = <<>>
    /\ total_candidates = <<>>

resultVars == <<vendor, vendor_candidates, date, total, total_candidates>>

\* the engine run outside a request or a batch touches neither
OtherIdle == BatchIdle /\ HttpIdle

(***************************************************************************)
(* clean_ocr_text                                                          *)
(***************************************************************************)
clean_ocr_text(t) == IF t = <<>> THEN <<>> ELSE ReplaceChar(t, "\r", "\n")

(***************************************************************************)
(* Amount extraction: MONEY_PATTERN, TOTAL_KEYWORDS, parse_amount_to_float *)
(* and extract_total                                                       *)
(***************************************************************************)
NotFound == <<"N", "o", "t", " ", "f", "o", "u", "n", "d">>

TOTAL_KEYWORDS == <<
    <<"g", "r", "a", "n", "d", " ", "t", "o", "t", "a", "l">>, <<"t", "o", "t", "a", "l", " ", "d", "u", "e">>, <<"a", "m", "o", "u", "n", "t", " ", "d", "u", "e">>, <<"b", "a", "l", "a", "n", "c", "e", " ", "d", "u", "e">>, <<"a", "m", "o", "u", "n", "t", " ", "p", "a", "y", "a", "b", "l", "e">>,
    <<"n", "e", "t", " ", "t", "o", "t", "a", "l">>, <<"i", "n", "v", "o", "i", "c", "e", " ", "t", "o", "t", "a", "l">>, <<"t", "o", "t", "a", "l", " ", "a", "m", "o", "u", "n", "t">>, <<"t", "o", "t", "a", "l">> >>

\* default of extract_total's gap_max_chars
GapMaxChars == 80

\* a match (the index of its last character) or, failing that, the alternative
OrElse(e, alternative) == IF e # 0 THEN e ELSE alternative

\* the same for a span <<first, last>>
SpanOrElse(span, alternative) == IF span[1] # 0 THEN span ELSE alternative

\* the first span of a sequence of alternatives that is a match, or <<0, 0>>
FirstSpan(spans) ==
    IF \A k \in 1..Len(spans) : spans[k][1] = 0 THEN <<0, 0>>
    ELSE spans[CHOOSE k \in 1..Len(spans) :
                   spans[k][1] # 0 /\ \A j \in 1..(k - 1) : spans[j][1] = 0]

\* (?:[.,]\d{2})
MoneyFraction(s, p) ==
    IF At(s, p) \in {".", ","} /\ DigitsAt(s, p + 1, 2) THEN p + 2 ELSE 0

\* (?:[.,]\d{3})*(?:[.,]\d{2}) : one more group first, then the fraction
RECURSIVE MoneyGroups(_, _)
MoneyGroups(s, p) ==
    OrElse(IF At(s, p) \in {".", ","} /\ DigitsAt(s, p + 1, 3)
           THEN MoneyGroups(s, p + 4)
           ELSE 0,
           MoneyFraction(s, p))

\* \d{1,3} then the groups: n digits first, then fewer
RECURSIVE MoneyDigits(_, _, _)
MoneyDigits(s, p, n) ==
    OrElse(IF DigitsAt(s, p, n) THEN MoneyGroups(s, p + n) ELSE 0,
           IF n = 1 THEN 0 ELSE MoneyDigits(s, p, n - 1))

\* \s* then the digits: k whitespace characters first, then fewer
RECURSIVE MoneySpaces(_, _, _)
MoneySpaces(s, p, k) ==
    OrElse(MoneyDigits(s, p + k, 3),
           IF k = 0 THEN 0 ELSE MoneySpaces(s, p, k - 1))

\* [\$]?\s*... : with the sign first, then without
MoneySigned(s, p) ==
    IF At(s, p) = "$"
    THEN MoneySpaces(s, p + 1, RunLength(s, p + 1, Whitespace, TRUE))
    ELSE 0

\* MONEY_PATTERN anchored at index p: the last index of the match, 0 for none
MoneyAt(s, p) ==
    OrElse(MoneySigned(s, p), MoneySpaces(s, p, RunLength(s, p, Whitespace, TRUE)))

\* the span from first to last, if last is a match
SpanTo(first, last) == IF last # 0 THEN <<first, last>> ELSE <<0, 0>>

\* [^\d]{0,gap} then (MONEY_PATTERN): a gap of g first, then shorter ones
GapThenMoney(s, p, g) ==
    FirstSpan(Tuple([k \in 1..(g + 1) |-> SpanTo(p + g + 1 - k, MoneyAt(s, p + g + 1 - k))]))

\* one alternative kw of TOTAL_KEYWORDS at index i, then the gap and the amount;
\* ls is s in lower case (re.IGNORECASE)
KeywordAt(s, ls, i, kw, gap_max_chars) ==
    IF MatchesAt(ls, i, kw)
    THEN GapThenMoney(s, i + Len(kw),
                      Min(gap_max_chars, RunLength(s, i + Len(kw), Digit, FALSE)))
    ELSE <<0, 0>>

\* the alternation TOTAL_KEYWORDS at index i, alternatives in their written order
RECURSIVE KeywordThenMoney(_, _, _, _, _)
KeywordThenMoney(s, ls, i, k, gap_max_chars) ==
    IF k > Len(TOTAL_KEYWORDS) THEN <<0, 0>>
    ELSE SpanOrElse(KeywordAt(s, ls, i, TOTAL_KEYWORDS[k], gap_max_chars),
                    KeywordThenMoney(s, ls, i, k + 1, gap_max_chars))

\* regex.search(text): <<first, last>> index of group 1 of the leftmost match,
\* ls being s in lower case
LabelledSearch(s, ls, gap_max_chars) ==
    FirstSpan(Tuple([i \in 1..Len(s) |-> KeywordThenMoney(s, ls, i, 1, gap_max_chars)]))

\* the spans re.findall matches from index i on, left to right and not
\* overlapping, ends[j] being the end of the pattern's match at j (0 for none)
RECURSIVE FindAllSpans(_, _)
SpanThenRest(ends, i) == <<<<i, ends[i]>>>> \o FindAllSpans(ends, ends[i] + 1)

FindAllSpans(ends, i) ==
    IF \A j \in i..Len(ends) : ends[j] = 0 THEN <<>>
    ELSE SpanThenRest(ends, Least({j \in i..Len(ends) : ends[j] # 0}))

\* the substrings of s at the spans
Substrings(s, spans) == Tuple([k \in 1..Len(spans) |-> SubSeq(s, spans[k][1], spans[k][2])])

\* re.findall(MONEY_PATTERN, text)
MoneyFindAll(s) ==
    Substrings(s, FindAllSpans(Tuple([i \in 1..Len(s) |-> MoneyAt(s, i)]), 1))

None == [ok |-> FALSE, neg |-> FALSE, int |-> <<>>, frac |-> <<>>]

\* digits without their leading zeros
RECURSIVE StripZeros(_)
StripZeros(ds) == IF ds # <<>> /\ Head(ds) = "0" THEN StripZeros(Tail(ds)) ELSE ds

\* the float of the unsigned body, dot being the index of its last "." (0: none)
FloatOf(neg, body, dot) ==
    IF \/ \A i \in 1..Len(body) : body[i] \notin Digit
       \/ CountChar(body, ".") > 1
       \/ \E i \in 1..Len(body) : body[i] \notin Digit \cup {"."}
    THEN None
    ELSE [ok |-> TRUE, neg |-> neg,
          int |-> StripZeros(IF dot = 0 THEN body ELSE SubSeq(body, 1, dot - 1)),
          frac |-> IF dot = 0 THEN <<>> ELSE SubSeq(body, dot + 1, Len(body))]

\* float(s) for s over digits, ".", "," and "-": an optional sign, then digits with
\* at most one point and at least one digit. The value is kept as its decimal
\* digits, (-1)^neg * int.frac, exact (a Python float is, to 15 significant digits)
PyFloat(s) ==
    IF At(s, 1) = "-" THEN FloatOf(TRUE, Tail(s), RFind(Tail(s), "."))
    ELSE FloatOf(FALSE, s, RFind(s, "."))

\* the separator resolution of parse_amount_to_float on the cleaned string
ResolveSeparators(s, commas, dots) ==
    IF commas > 0 /\ dots > 0
    THEN IF RFind(s, ",") > RFind(s, ".")
         THEN ReplaceChar(FilterChars(s, Digit \cup {",", "-"}), ",", ".")
         ELSE FilterChars(s, Digit \cup {".", "-"})
    ELSE IF commas > 0 /\ dots = 0
    THEN IF Len(s) - RFind(s, ",") = 2
         THEN ReplaceChar(s, ",", ".")
         ELSE FilterChars(s, Digit \cup {".", "-"})
    ELSE s

\* parse_amount_to_float from the re.sub on: s has digits, ",", "." and "-" only
ParseCleaned(s) ==
    IF s = <<>> THEN None
    ELSE PyFloat(ResolveSeparators(s, CountChar(s, ","), CountChar(s, ".")))

parse_amount_to_float(amount_str) ==
    IF amount_str = <<>> THEN None
    ELSE ParseCleaned(FilterChars(Strip(amount_str), Digit \cup {",", ".", "-"}))

\* ds with zeros appended up to n digits
PadRight(ds, n) == ds \o Tuple([i \in 1..Max(n - Len(ds), 0) |-> "0"])

\* f"{v:.2f}" for a float of at most two fraction digits, which is what a token of
\* MONEY_PATTERN parses to (further digits are cut, not rounded)
Format2f(v) ==
    (IF v.neg THEN <<"-">> ELSE <<>>)
    \o (IF v.int = <<>> THEN <<"0">> ELSE v.int)
    \o <<".">> \o SubSeq(PadRight(v.frac, 2), 1, 2)

\* a > b for two strings of digits of the same length
DigitsGreater(a, b) ==
    \E i \in 1..Len(a) :
        /\ DigitValue(a[i]) > DigitValue(b[i])
        /\ \A j \in 1..(i - 1) : a[j] = b[j]

\* a > b for the digits of two numbers with as many fraction digits
NumberGreater(xa, xb) == Len(xa) > Len(xb) \/ (Len(xa) = Len(xb) /\ DigitsGreater(xa, xb))

\* |a| > |b|
MagnitudeGreater(a, b) ==
    NumberGreater(a.int \o PadRight(a.frac, Max(Len(a.frac), Len(b.frac))),
                  b.int \o PadRight(b.frac, Max(Len(a.frac), Len(b.frac))))

IsZero(v) == \A i \in 1..Len(v.frac) : v.frac[i] = "0" /\ v.int = <<>>

\* a > b on floats
FloatGreater(a, b) ==
    CASE ~a.neg /\ ~b.neg -> MagnitudeGreater(a, b)
      [] a.neg /\ b.neg -> MagnitudeGreater(b, a)
      [] ~a.neg /\ b.neg -> ~(IsZero(a) /\ IsZero(b))
      [] OTHER -> FALSE

\* the greater of two floats, the first on a tie
Greater(first, second) == IF FloatGreater(second, first) THEN second ELSE first

\* parsed_list[0] in place of max(parsed_list)
FirstFloat(vs) == vs[1]

\* max(parsed_list): the first greatest element
RECURSIVE MaxFloat(_)
MaxFloat(vs) == IF Len(vs) = 1 THEN vs[1] ELSE Greater(vs[1], MaxFloat(Tail(vs)))

\* the floats of the tokens that parse, in order
RECURSIVE SelectParsed(_)
SelectParsed(ms) ==
    IF ms = <<>> THEN <<>>
    ELSE (IF parse_amount_to_float(Head(ms)).ok
          THEN <<parse_amount_to_float(Head(ms))>>
          ELSE <<>>) \o SelectParsed(Tail(ms))

\* f"{max(parsed_list):.2f}" if parsed_list else "Not found"
MaxOrNotFound(parsed_list) ==
    IF parsed_list # <<>> THEN Format2f(MaxFloat(parsed_list)) ELSE NotFound

\* the fallback of extract_total: every MONEY_PATTERN token of the text joins the
\* candidates, and the greatest that parses is chosen
TotalFromTokens(debug_candidates, money_matches) ==
    <<MaxOrNotFound(SelectParsed(money_matches)), debug_candidates \o money_matches>>

\* the "if match:" block of extract_total, amt_raw being match.group(1) and parsed
\* its float
TotalFromLabel(s, amt_raw, parsed) ==
    IF parsed.ok THEN <<Format2f(parsed), <<amt_raw>>>>
    ELSE TotalFromTokens(<<amt_raw>>, MoneyFindAll(s))

\* extract_total after regex.search(text), m being the span of group 1
TotalFromSearch(s, m) ==
    IF m[1] # 0
    THEN TotalFromLabel(s, SubSeq(s, m[1], m[2]), parse_amount_to_float(SubSeq(s, m[1], m[2])))
    ELSE TotalFromTokens(<<>>, MoneyFindAll(s))

\* regex.search(text) in extract_total
LabelledMatch(s, gap_max_chars) == LabelledSearch(s, LowerStr(s), gap_max_chars)

\* extract_total(text, gap_max_chars): <<chosen, candidates>>
extract_total(t, gap_max_chars) ==
    TotalFromSearch(clean_ocr_text(t), LabelledMatch(clean_ocr_text(t), gap_max_chars))

(***************************************************************************)
(* Date extraction: clean_text_for_dates, the three date patterns,         *)
(* datetime.strptime over possible_formats, strftime("%Y-%m-%d")           *)
(***************************************************************************)
clean_text_for_dates(t) ==
    ReplaceChar(ReplaceChar(ReplaceChar(t, "I", "1"), "l", "1"), "O", "0")

MonthAbbr == <<<<"J", "a", "n">>, <<"F", "e", "b">>, <<"M", "a", "r">>, <<"A", "p", "r">>, <<"M", "a", "y">>, <<"J", "u", "n">>, <<"J", "u", "l">>, <<"A", "u", "g">>, <<"S", "e", "p">>, <<"O", "c", "t">>, <<"N", "o", "v">>, <<"D", "e", "c">>>>

MonthFull == <<
    <<"J", "a", "n", "u", "a", "r", "y">>, <<"F", "e", "b", "r", "u", "a", "r", "y">>, <<"M", "a", "r", "c", "h">>, <<"A", "p", "r", "i", "l">>, <<"M", "a", "y">>, <<"J", "u", "n", "e">>, <<"J", "u", "l", "y">>, <<"A", "u", "g", "u", "s", "t">>,
    <<"S", "e", "p", "t", "e", "m", "b", "e", "r">>, <<"O", "c", "t", "o", "b", "e", "r">>, <<"N", "o", "v", "e", "m", "b", "e", "r">>, <<"D", "e", "c", "e", "m", "b", "e", "r">> >>

DateSep == {"/", "-"}

NameSep == {" ", ".", "-"}

\* the first result of a sequence of alternatives that is a match (non-zero)
FirstMatch(rs) ==
    IF \A k \in 1..Len(rs) : rs[k] = 0 THEN 0
    ELSE rs[CHOOSE k \in 1..Len(rs) : rs[k] # 0 /\ \A j \in 1..(k - 1) : rs[j] = 0]

\* \d{lo,hi}\b at index p, the longest run first
DigitsThenBoundary(s, p, lo, hi) ==
    FirstMatch(Tuple([k \in 1..(hi - lo + 1) |->
        LET n == hi + 1 - k
        IN IF DigitsAt(s, p, n) /\ WordBoundary(s, p + n) THEN p + n - 1 ELSE 0]))

\* an optional character of set, taken first, then the rest of the pattern
Optional(s, p, set, Rest(_, _)) ==
    LET taken == IF At(s, p) \in set THEN Rest(s, p + 1) ELSE 0
    IN IF taken # 0 THEN taken ELSE Rest(s, p)

\* \b\d{1,2}[/-]\d{1,2}[/-]\d{2,4}\b anchored at index i
NumericDateAt(s, i) ==
    IF ~WordBoundary(s, i) THEN 0
    ELSE FirstMatch(Tuple([a \in 1..2 |->
        LET p == i + (3 - a)
        IN IF DigitsAt(s, i, 3 - a) /\ At(s, p) \in DateSep
           THEN FirstMatch(Tuple([b \in 1..2 |->
                    LET q == p + 1 + (3 - b)
                    IN IF DigitsAt(s, p + 1, 3 - b) /\ At(s, q) \in DateSep
                       THEN DigitsThenBoundary(s, q + 1, 2, 4)
                       ELSE 0]))
           ELSE 0]))

\* \b\d{4}[/-]\d{1,2}[/-]\d{1,2}\b anchored at index i
IsoDateAt(s, i) ==
    IF ~(WordBoundary(s, i) /\ DigitsAt(s, i, 4) /\ At(s, i + 4) \in DateSep) THEN 0
    ELSE FirstMatch(Tuple([b \in 1..2 |->
        LET q == i + 5 + (3 - b)
        IN IF DigitsAt(s, i + 5, 3 - b) /\ At(s, q) \in DateSep
           THEN DigitsThenBoundary(s, q + 1, 1, 2)
           ELSE 0]))

\* [ .-]?\d{2,4}\b
NameDateYear(s, p) ==
    Optional(s, p, NameSep, LAMBDA t, q : DigitsThenBoundary(t, q, 2, 4))

\* \d{1,2},? and the year
NameDateDay(s, p) ==
    FirstMatch(Tuple([d \in 1..2 |->
        IF DigitsAt(s, p, 3 - d)
        THEN Optional(s, p + (3 - d), {","}, NameDateYear)
        ELSE 0]))

\* [a-z]* under IGNORECASE, the longest run first, then [ .-]? and the day
RECURSIVE NameDateLetters(_, _, _)
NameDateLetters(s, p, k) ==
    LET e == Optional(s, p + k, NameSep, NameDateDay)
    IN IF e # 0 THEN e
       ELSE IF k = 0 THEN 0
       ELSE NameDateLetters(s, p, k - 1)

\* \b(?:Jan|...|Dec)[a-z]*[ .-]?\d{1,2},?[ .-]?\d{2,4}\b anchored at index i
MonthNameDateAt(s, i) ==
    IF WordBoundary(s, i) /\ \E m \in 1..12 : MatchesAtCI(s, i, MonthAbbr[m])
    THEN NameDateLetters(s, i + 3, RunLength(s, i + 3, Lower \cup Upper, TRUE))
    ELSE 0

\* re.search: the match at the leftmost index where the pattern matches, or <<>>
Search(s, PatternAt(_, _)) ==
    LET ends == Tuple([i \in 1..Len(s) |-> PatternAt(s, i)])
    IN IF \A i \in 1..Len(s) : ends[i] = 0 THEN <<>>
       ELSE LET i == CHOOSE i \in 1..Len(s) :
                         ends[i] # 0 /\ \A j \in 1..(i - 1) : ends[j] = 0
            IN SubSeq(s, i, ends[i])

\* date_patterns, in order
DatePatternMatch(s, n) ==
    CASE n = 1 -> Search(s, NumericDateAt)
      [] n = 2 -> Search(s, IsoDateAt)
      [] n = 3 -> Search(s, MonthNameDateAt)

\* possible_formats, each a sequence of directives, literals and " " (\s+)
possible_formats == <<
    <<"%m", "/", "%d", "/", "%Y">>, <<"%m", "/", "%d", "/", "%y">>,
    <<"%m", "-", "%d", "-", "%Y">>, <<"%m", "-", "%d", "-", "%y">>,
    <<"%Y", "-", "%m", "-", "%d">>, <<"%Y", "/", "%m", "/", "%d">>,
    <<"%b", " ", "%d", " ", "%Y">>, <<"%B", " ", "%d", " ", "%Y">>,
    <<"%b", " ", "%d", ",", " ", "%Y">>, <<"%B", " ", "%d", ",", " ", "%Y">> >>

Opt(n, v) == [len |-> n, val |-> v]

In(c, set) == c # "" /\ c \in set

\* the alternatives of one element of a format at index p of s, in the order
\* _strptime's regular expression tries them
DirectiveOptions(tok, s, p) ==
    LET c1 == At(s, p)
        c2 == At(s, p + 1)
        two == IF IsDigit(c1) /\ IsDigit(c2) THEN DigitsValue(<<c1, c2>>) ELSE 0
        one == IF IsDigit(c1) THEN DigitsValue(<<c1>>) ELSE 0
        if(b, o) == IF b THEN <<o>> ELSE <<>>
    IN CASE tok = "%d" ->
               if(c1 = "3" /\ In(c2, {"0", "1"}), Opt(2, two))
               \o if(In(c1, {"1", "2"}) /\ IsDigit(c2), Opt(2, two))
               \o if(c1 = "0" /\ In(c2, Digit \ {"0"}), Opt(2, two))
               \o if(In(c1, Digit \ {"0"}), Opt(1, one))
               \o if(c1 = " " /\ In(c2, Digit \ {"0"}), Opt(2, DigitsValue(<<"0", c2>>)))
         [] tok = "%m" ->
               if(c1 = "1" /\ In(c2, {"0", "1", "2"}), Opt(2, two))
               \o if(c1 = "0" /\ In(c2, Digit \ {"0"}), Opt(2, two))
               \o if(In(c1, Digit \ {"0"}), Opt(1, one))
         [] tok = "%Y" ->
               if(DigitsAt(s, p, 4), Opt(4, DigitsValue(SubSeq(s, p, Min(p + 3, Len(s))))))
         [] tok = "%y" ->
               if(DigitsAt(s, p, 2),
                  Opt(2, IF two <= 68 THEN 2000 + two ELSE 1900 + two))
         [] tok = "%b" ->
               IF \E m \in 1..12 : MatchesAtCI(s, p, MonthAbbr[m])
               THEN <<Opt(3, CHOOSE m \in 1..12 : MatchesAtCI(s, p, MonthAbbr[m]))>>
               ELSE <<>>
         [] tok = "%B" ->
               IF \E m \in 1..12 : MatchesAtCI(s, p, MonthFull[m])
               THEN LET m == CHOOSE m \in 1..12 : MatchesAtCI(s, p, MonthFull[m])
                    IN <<Opt(Len(MonthFull[m]), m)>>
               ELSE <<>>
         [] tok = " " ->
               LET run == RunLength(s, p, Whitespace, TRUE)
               IN Tuple([k \in 1..run |-> Opt(run + 1 - k, 0)])
         [] OTHER -> if(c1 = tok, Opt(1, 0))

NoDate == [ok |-> FALSE, end |-> 0, year |-> 0, month |-> 0, day |-> 0]

Bind(acc, tok, v) ==
    CASE tok \in {"%Y", "%y"} -> [acc EXCEPT !.year = v]
      [] tok \in {"%m", "%b", "%B"} -> [acc EXCEPT !.month = v]
      [] tok = "%d" -> [acc EXCEPT !.day = v]
      [] OTHER -> acc

\* format_regex.match(data_string): the first match in backtracking order
RECURSIVE FormatMatch(_, _, _, _, _)
RECURSIVE FormatTry(_, _, _, _, _, _, _)
FormatMatch(f, k, s, p, acc) ==
    IF k > Len(f) THEN [acc EXCEPT !.ok = TRUE, !.end = p - 1]
    ELSE FormatTry(f, k, s, p, acc, DirectiveOptions(f[k], s, p), 1)

FormatTry(f, k, s, p, acc, opts, j) ==
    IF j > Len(opts) THEN NoDate
    ELSE LET r == FormatMatch(f, k + 1, s, p + opts[j].len, Bind(acc, f[k], opts[j].val))
         IN IF r.ok THEN r ELSE FormatTry(f, k, s, p, acc, opts, j + 1)

IsLeap(y) == (y % 4 = 0 /\ y % 100 # 0) \/ y % 400 = 0

DaysInMonth(y, m) ==
    IF m = 2 THEN (IF IsLeap(y) THEN 29 ELSE 28)
    ELSE IF m \in {4, 6, 9, 11} THEN 30 ELSE 31

\* datetime.strptime(raw_date, fmt): the date, or ok = FALSE where it raises ValueError
\* (no match, unconverted data remains, or a date datetime rejects)
strptime(raw_date, fmt) ==
    LET r == FormatMatch(fmt, 1, raw_date, 1, NoDate)
    IN IF /\ r.ok
          /\ r.end = Len(raw_date)
          /\ r.year \in 1..9999
          /\ r.month \in 1..12
          /\ r.day \in 1..DaysInMonth(r.year, r.month)
       THEN r
       ELSE NoDate

\* parsed.strftime("%Y-%m-%d"); the C library decides whether %Y is zero-padded
strftime(d, pad) ==
    DigitsOf(d.year, IF pad THEN 4 ELSE 1) \o <<"-">> \o DigitsOf(d.month, 2)
    \o <<"-">> \o DigitsOf(d.day, 2)

\* the first of possible_formats that parses raw_date, or NoDate
FirstParse(raw_date) ==
    IF \A k \in 1..Len(possible_formats) : ~strptime(raw_date, possible_formats[k]).ok
    THEN NoDate
    ELSE strptime(raw_date, possible_formats[
             CHOOSE k \in 1..Len(possible_formats) :
                 /\ strptime(raw_date, possible_formats[k]).ok
                 /\ \A j \in 1..(k - 1) : ~strptime(raw_date, possible_formats[j]).ok])

\* the loop over date_patterns from pattern n on
RECURSIVE DateFromPattern(_, _, _)
DateFromPattern(s, n, pad) ==
    IF n > 3 THEN NotFound
    ELSE LET raw_date == DatePatternMatch(s, n)
             parsed == IF raw_date = <<>> THEN NoDate ELSE FirstParse(raw_date)
         IN IF parsed.ok THEN strftime(parsed, pad) ELSE DateFromPattern(s, n + 1, pad)

extract_date(t, pad) == DateFromPattern(clean_text_for_dates(t), 1, pad)

(***************************************************************************)
(* Vendor extraction: VENDOR_SKIP_KEYWORDS, COMPANY_HINTS, extract_vendor  *)
(***************************************************************************)
Unknown == <<"U", "n", "k", "n", "o", "w", "n">>

\* the alternatives of VENDOR_SKIP_KEYWORDS, anchored at the start of the line
VENDOR_SKIP_KEYWORDS == <<
    <<"i", "n", "v", "o", "i", "c", "e">>, <<"i", "n", "v", "o", "i", "c", "e", " ", "n", "o">>, <<"i", "n", "v", "o", "i", "c", "e", " ", "#">>, <<"i", "n", "v", "o", "i", "c", "e", " ", "n", "u", "m", "b", "e", "r">>, <<"d", "a", "t", "e">>, <<"d", "u", "e">>, <<"p", "a", "g", "e">>,
    <<"t", "o", "t", "a", "l">>, <<"t", "a", "x">>, <<"p", "h", "o", "n", "e">>, <<"t", "e", "l">>, <<"f", "a", "x">>, <<"b", "i", "l", "l", " ", "t", "o">>, <<"s", "h", "i", "p", " ", "t", "o">>, <<"a", "m", "o", "u", "n", "t">>, <<"b", "a", "l", "a", "n", "c", "e">>,
    <<"s", "u", "b", "t", "o", "t", "a", "l">>, <<"d", "e", "s", "c", "r", "i", "p", "t", "i", "o", "n">>, <<"i", "t", "e", "m">>, <<"q", "u", "a", "n", "t", "i", "t", "y">>, <<"q", "t", "y">>, <<"a", "c", "c", "o", "u", "n", "t">>, <<"a", "d", "d", "r", "e", "s", "s">>,
    <<"o", "r", "d", "e", "r">>, <<"s", "h", "i", "p">>, <<"e", "m", "a", "i", "l">>, <<"p", "a", "g", "e">> >>

\* the alternatives of COMPANY_HINTS, each between two \b
COMPANY_HINTS == <<
    <<"i", "n", "c">>, <<"l", "l", "c">>, <<"l", "t", "d">>, <<"c", "o">>, <<"c", "o", "r", "p">>, <<"c", "o", "r", "p", "o", "r", "a", "t", "i", "o", "n">>, <<"c", "o", "m", "p", "a", "n", "y">>, <<"g", "m", "b", "h">>, <<"p", "l", "c">> >>

\* default of extract_vendor's top_n_lines
TopNLines == 8

\* VENDOR_SKIP_KEYWORDS.search(lc)
SkipKeywordMatches(lc) ==
    \E k \in 1..Len(VENDOR_SKIP_KEYWORDS) : MatchesAtCI(lc, 1, VENDOR_SKIP_KEYWORDS[k])

\* re.match(r'^[\d\W]{1,}$', line)
OnlyDigitsOrNonWord(line) ==
    /\ Len(line) >= 1
    /\ \A i \in 1..Len(line) : IsDigit(line[i]) \/ ~IsWord(line[i])

\* '@' in line or 'http' in line or 'www' in line
ContactLine(line) ==
    Contains(line, <<"@">>) \/ Contains(line, <<"h", "t", "t", "p">>) \/ Contains(line, <<"w", "w", "w">>)

\* COMPANY_HINTS.search(line)
CompanyHintMatches(line) ==
    \E i \in 1..Len(line) : \E k \in 1..Len(COMPANY_HINTS) :
        /\ WordBoundary(line, i)
        /\ MatchesAtCI(line, i, COMPANY_HINTS[k])
        /\ WordBoundary(line, i + Len(COMPANY_HINTS[k]))

\* len(line.split())
WordCount(line) ==
    Cardinality({i \in 1..Len(line) : ~IsSpace(line[i]) /\ (i = 1 \/ IsSpace(line[i - 1]))})

LineScore(line) ==
    (IF CompanyHintMatches(line) THEN 5 ELSE 0)
    + (IF 1 < WordCount(line) /\ WordCount(line) <= 6 THEN 2 ELSE 0)
    + (IF Cardinality({i \in 1..Len(line) : IsAlpha(line[i])})
          > Cardinality({i \in 1..Len(line) : IsDigit(line[i])})
       THEN 1 ELSE 0)

\* the three filters of the loop: the line is skipped
Rejected(line) ==
    \/ SkipKeywordMatches(LowerStr(line))
    \/ OnlyDigitsOrNonWord(line)
    \/ ContactLine(line)

\* str.splitlines
RECURSIVE SplitLines(_)
SplitLines(s) ==
    IF s = <<>> THEN <<>>
    ELSE IF \A i \in 1..Len(s) : s[i] \notin LineBreak THEN <<s>>
    ELSE LET i == CHOOSE i \in 1..Len(s) :
                      s[i] \in LineBreak /\ \A j \in 1..(i - 1) : s[j] \notin LineBreak
         IN <<SubSeq(s, 1, i - 1)>> \o SplitLines(SubSeq(s, i + 1, Len(s)))

\* [ln.strip() for ln in text.splitlines() if ln.strip()]
NonBlankLines(t) ==
    LET raw == SplitLines(t)
        stripped == Tuple([k \in 1..Len(raw) |-> Strip(raw[k])])
    IN SelectSeq(stripped, LAMBDA ln : ln # <<>>)

\* the candidates of the loop over lines[:top_n_lines], as (score, i, line)
RECURSIVE ScoreLines(_, _, _)
ScoreLines(lines, i, top_n_lines) ==
    IF i > Min(Len(lines), top_n_lines) THEN <<>>
    ELSE (IF Rejected(lines[i]) THEN <<>>
          ELSE <<[score |-> LineScore(lines[i]), i |-> i, line |-> lines[i]]>>)
         \o ScoreLines(lines, i + 1, top_n_lines)

\* a sort that puts the later of two lines of equal score first
SortsLaterFirst(a, b) == a.score > b.score \/ (a.score = b.score /\ a.i > b.i)

\* the sort key (-score, i)
SortsBefore(a, b) == a.score > b.score \/ (a.score = b.score /\ a.i < b.i)

RECURSIVE InsertSorted(_, _)
InsertSorted(c, sorted) ==
    IF sorted = <<>> THEN <<c>>
    ELSE IF SortsBefore(c, Head(sorted)) THEN <<c>> \o sorted
    ELSE <<Head(sorted)>> \o InsertSorted(c, Tail(sorted))

\* candidates.sort(key=lambda x: (-x[0], x[1]))
RECURSIVE SortCandidates(_)
SortCandidates(cs) ==
    IF cs = <<>> THEN <<>> ELSE InsertSorted(Head(cs), SortCandidates(Tail(cs)))

\* extract_vendor without the first-line fallback: 'Unknown' whenever no line passes
VendorWithoutFallback(t, top_n_lines) ==
    LET candidates == SortCandidates(ScoreLines(NonBlankLines(clean_ocr_text(t)), 1, top_n_lines))
    IN IF candidates # <<>>
       THEN <<candidates[1].line, Tuple([k \in 1..Len(candidates) |-> candidates[k].line])>>
       ELSE <<Unknown, <<>>>>

\* extract_vendor(text, top_n_lines): <<chosen, candidates>>
extract_vendor(t, top_n_lines) ==
    LET lines == NonBlankLines(clean_ocr_text(t))
        candidates == SortCandidates(ScoreLines(lines, 1, top_n_lines))
    IN IF candidates # <<>>
       THEN <<candidates[1].line, Tuple([k \in 1..Len(candidates) |-> candidates[k].line])>>
       ELSE <<IF lines # <<>> THEN lines[1] ELSE Unknown, <<>>>>

(***************************************************************************)
(* The inputs: OCR texts for the amount, date and vendor extractors        *)
(***************************************************************************)
\* how many labelled fields an amount text has at most
MaxFields == 2

\* how many lines follow the header of a vendor text at most
MaxVendorLines == 2

\* how many non-candidate lines head a vendor text at most
MaxHeaderLines == 8

\* the concatenation of a sequence of strings
RECURSIVE Concat(_)
Concat(ss) == IF ss = <<>> THEN <<>> ELSE Head(ss) \o Concat(Tail(ss))

\* the sequences over set of length at most n
SeqsUpTo(set, n) == UNION {[1..k -> set] : k \in 0..n}

\* more non-digit characters than the default gap allows
LongGap == Tuple([i \in 1..(GapMaxChars + 1) |-> "."])

\* as many non-digit characters as the default gap allows
FullGap == Tuple([i \in 1..GapMaxChars |-> "."])

AmountLabels == {<<>>, <<"S", "u", "b", "t", "o", "t", "a", "l", ":", " ">>, <<" ", ".", ".", ".", " ", "T", "O", "T", "A", "L", " ", "D", "U", "E", " ">>, <<" ", "a", "n", "d", " ">>}

AmountTokens == {
    <<>>, <<"$", "8", "0", ".", "0", "0">>, <<"$", "1", "2", "3", ".", "4", "5">>, <<"1", "2", "3", "4", "5", ".", "6", "7">>, <<"1", ",", "2", "3", "4">>, <<"1", ".", "2", "3", "4", ".", "5", "6">>, <<"$", "1", ",", "2", "3", "4", ".", "5", "6">>,
    <<"$", "9", "9", "9", ".", "0", "0">>, <<"1", ".", "2", "3", "4", ",", "5", "6">> }

AmountFields == {l \o a : l \in AmountLabels, a \in AmountTokens}

\* a label, a gap of the allowed length or one more, and an amount
GapTexts == {
    p \o <<"B", "a", "l", "a", "n", "c", "e", " ", "d", "u", "e">> \o g \o a :
        p \in {<<>>, <<"$", "8", "0", ".", "0", "0", " ">>}, g \in {FullGap, LongGap}, a \in AmountTokens }

AmountTexts == {Concat(fs) : fs \in SeqsUpTo(AmountFields, MaxFields)} \cup GapTexts

\* a month name as written, in lower case and in upper case
Cases(name) == {name, LowerStr(name), UpperStr(name)}

MonthNames == UNION {Cases(MonthAbbr[m]) \cup Cases(MonthFull[m]) : m \in 1..12}

DatePrefixes == {<<>>, <<"I", "n", "v", "o", "i", "c", "e", " ", "D", "a", "t", "e", ":", " ">>}

MonthNameDates == {n \o <<" ">> \o d \o <<",", " ", "2", "0", "1", "4">> : n \in MonthNames, d \in {<<"1">>, <<"1", "5">>}}

OtherDates == {
    <<"5", "/", "1", "/", "2", "0", "1", "4">>, <<"0", "5", "-", "0", "1", "-", "1", "4">>, <<"1", "2", "/", "3", "1", "/", "0", "0", "9", "9">>, <<"1", "3", "/", "1", "/", "2", "0", "1", "4", " ", "o", "r", " ", "2", "0", "1", "4", "-", "0", "5", "-", "0", "1">>, <<"2", "0", "1", "4", "/", "0", "5", "/", "0", "1">>,
    <<"2", "0", "1", "4", "-", "5", "-", "1">>, <<"5", "/", "1", "/", "2", "0", "1">>, <<"2", "/", "3", "0", "/", "2", "0", "1", "4">>, <<"0", "0", "9", "9", "-", "0", "1", "-", "0", "1">>, <<"2", "/", "2", "9", "/", "2", "0", "1", "2">>, <<"M", "a", "y", " ", "1", " ", "2", "0", "1", "4">>,
    <<"S", "e", "p", "t", " ", "5", ",", " ", "2", "0", "1", "4">>, <<"M", "a", "y", ".", "1", ",", "2", "0", "1", "4">>, <<"n", "o", " ", "d", "a", "t", "e">> }

DateTexts == {p \o d : p \in DatePrefixes, d \in MonthNameDates \cup OtherDates}

VendorLines == {
    <<>>, <<" ", "\t">>, <<"I", "N", "V", "O", "I", "C", "E", " ", "#", "1", "2", "3">>, <<"A", "c", "m", "e", " ", "C", "o", "r", "p", " ", "L", "L", "C">>, <<"1", "2", "3", " ", "M", "a", "i", "n", " ", "S", "t">>, <<" ", "B", "e", "t", "a", " ", "C", "o", ",", " ", "L", "t", "d", " ">>,
    <<"W", "i", "d", "g", "e", "t", "s">>, <<"i", "n", "f", "o", "@", "a", "c", "m", "e", ".", "c", "o", "m">>, <<"T", "o", "t", "a", "l", " ", "S", "o", "l", "u", "t", "i", "o", "n", "s", " ", "I", "n", "c">>, <<"a", " ", "b", " ", "c", " ", "d", " ", "e", " ", "f", " ", "g", " ", "1", " ", "2", " ", "3", " ", "4", " ", "5", " ", "6", " ", "7", " ", "8">>,
    <<"Z", "e", "d", " ", "G", "m", "b", "H", "\r", "w", "w", "w", ".", "z", "e", "d", ".", "c", "o", "m">>, <<"G", "a", "m", "m", "a", " ", "I", "n", "c", "\n", "D", "e", "l", "t", "a", " ", "I", "n", "c">> }

HeaderLine == <<"5", "5", "5", "-", "0", "1", "0", "0", "\n">>

VendorTexts == {
    Concat([i \in 1..h |-> HeaderLine]) \o Concat([k \in 1..Len(b) |-> b[k] \o <<"\n">>]) :
        h \in 0..MaxHeaderLines, b \in SeqsUpTo(VendorLines, MaxVendorLines) }

Texts == AmountTexts \cup DateTexts \cup VendorTexts

(***************************************************************************)
(* The extraction engine as parse_document runs it: vendor, date, total    *)
(***************************************************************************)
\* the engine's variables before the first extractor has run, at step start
EngineStart(texts, start) ==
    /\ text \in texts
    /\ pc = start
    /\ NoResults

ExtractVendor ==
    /\ pc = "vendor"
    /\ LET r == extract_vendor(text, TopNLines)
       IN /\ vendor' = r[1]
          /\ vendor_candidates' = r[2]
    /\ pc' = "date"
    /\ UNCHANGED <<text, date, total, total_candidates>>
    /\ UNCHANGED otherVars

\* strftime's %Y is the C library's: zero-padded to four digits or not
ExtractDate ==
    /\ pc = "date"
    /\ \E pad \in BOOLEAN : date' = extract_date(text, pad)
    /\ pc' = "total"
    /\ UNCHANGED <<text, vendor, vendor_candidates, total, total_candidates>>
    /\ UNCHANGED otherVars

ExtractTotal ==
    /\ pc = "total"
    /\ LET r == extract_total(text, GapMaxChars)
       IN /\ total' = r[1]
          /\ total_candidates' = r[2]
    /\ pc' = "done"
    /\ UNCHANGED <<text, vendor, vendor_candidates, date>>
    /\ UNCHANGED otherVars

\* the three extractors over one text, in the order of parse_document
Init == EngineStart(Texts, "vendor") /\ OtherIdle

Next == ExtractVendor \/ ExtractDate \/ ExtractTotal

Spec == Init /\ [][Next]_vars

\* extract_vendor alone, over the vendor texts
InitVendor == EngineStart(VendorTexts, "vendor") /\ OtherIdle

NextVendor == ExtractVendor

SpecVendor == InitVendor /\ [][NextVendor]_vars

\* extract_date alone, over the date texts
InitDate == EngineStart(DateTexts, "date") /\ OtherIdle

NextDate == ExtractDate

SpecDate == InitDate /\ [][NextDate]_vars

\* extract_total alone, over the amount texts
InitTotal == EngineStart(AmountTexts, "total") /\ OtherIdle

NextTotal == ExtractTotal

SpecTotal == InitTotal /\ [][NextTotal]_vars

(***************************************************************************)
(* Properties of the extraction engine                                     *)
(***************************************************************************)
\* amounts MONEY_PATTERN matches whole and parse_amount_to_float normalizes
WellFormedAmounts == {<<"$", "8", "0", ".", "0", "0">>, <<"$", "1", "2", "3", ".", "4", "5">>, <<"$", "9", "9", "9", ".", "0", "0">>, <<"$", "1", ",", "2", "3", "4", ".", "5", "6">>}

\* C1: when a 'Subtotal' line with an amount a precedes a total keyword ('TOTAL
\* DUE') followed within the gap by a different amount b, extract_total returns b
\* formatted to two decimals as chosen, and the candidates contain b's raw token.
C1_TotalAfterSubtotal ==
    \A a \in WellFormedAmounts : \A b \in WellFormedAmounts \ {a} :
        (pc = "done" /\ text = <<"S", "u", "b", "t", "o", "t", "a", "l", ":", " ">> \o a \o <<" ", ".", ".", ".", " ", "T", "O", "T", "A", "L", " ", "D", "U", "E", " ">> \o b)
        => /\ total = Format2f(parse_amount_to_float(b))
           /\ \E k \in 1..Len(total_candidates) :
                  /\ EndsWith(b, total_candidates[k])
                  /\ parse_amount_to_float(total_candidates[k]) = parse_amount_to_float(b)

\* the example of C1, with what the code returns for it
C1_SubtotalChosen ==
    /\ pc = "done"
    /\ text = <<"S", "u", "b", "t", "o", "t", "a", "l", ":", " ", "$", "8", "0", ".", "0", "0", " ", ".", ".", ".", " ", "T", "O", "T", "A", "L", " ", "D", "U", "E", " ", "$", "1", "2", "3", ".", "4", "5">>
    /\ total = <<"8", "0", ".", "0", "0">>
    /\ total_candidates = <<<<"8", "0", ".", "0", "0">>>>

\* a one-digit day written with two digits
Pad2(d) == IF Len(d) = 1 THEN <<"0">> \o d ELSE d

\* C2: for each of the twelve month names, abbreviated or full, in any letter
\* case, a text holding '<Month> <day>, <year>' and no numeric or ISO-like date
\* makes extract_date return that date as YYYY-MM-DD: the OCR-confusion
\* correction does not keep the month-name family from matching.
C2_MonthNameDates ==
    \A m \in 1..12 : \A n \in Cases(MonthAbbr[m]) \cup Cases(MonthFull[m]) :
        \A d \in {<<"1">>, <<"1", "5">>} : \A p \in DatePrefixes :
            (pc = "total" /\ text = p \o n \o <<" ">> \o d \o <<",", " ", "2", "0", "1", "4">>)
            => date = <<"2", "0", "1", "4", "-">> \o DigitsOf(m, 2) \o <<"-">> \o Pad2(d)

\* a month-name date the OCR-confusion correction spoils
C2_JulyNotFound ==
    /\ pc = "total"
    /\ text = <<"I", "n", "v", "o", "i", "c", "e", " ", "D", "a", "t", "e", ":", " ", "J", "u", "l", "y", " ", "1", ",", " ", "2", "0", "1", "4">>
    /\ date = NotFound

\* vendor is the first non-blank line of s, trimmed: only whitespace comes before
\* it in s, and only blanks follow it on its line
IsFirstNonBlankLine(s, line) ==
    \E i \in 1..Len(s) : \E j \in i..Len(s) :
        /\ SubSeq(s, i, j) = line
        /\ \A k \in 1..(i - 1) : s[k] \in Whitespace
        /\ s[i] \notin Whitespace /\ s[j] \notin Whitespace
        /\ \A k \in i..j : s[k] \notin LineBreak
        /\ \A k \in (j + 1)..Len(s) :
               (\A x \in (j + 1)..k : s[x] \notin LineBreak) => s[k] \in Whitespace

\* no line among the first top_n_lines non-blank lines passes the filters
NoLineSurvives(lines, top_n_lines) ==
    \A i \in 1..Min(Len(lines), top_n_lines) : Rejected(lines[i])

\* C3: extract_vendor always returns a non-empty chosen string. When no line among
\* the first top_n_lines non-blank lines survives filtering, the candidates are
\* empty and chosen is the first non-blank line, trimmed; when the text has no
\* non-blank line, chosen is 'Unknown' and the candidates are empty; when the
\* candidates are not empty, chosen is their first element.
C3_VendorFallback ==
    pc = "date" =>
        /\ vendor # <<>>
        /\ vendor_candidates # <<>> => vendor = vendor_candidates[1]
        /\ (\A i \in 1..Len(text) : text[i] \in Whitespace)
               => vendor = Unknown /\ vendor_candidates = <<>>
        /\ NoLineSurvives(NonBlankLines(clean_ocr_text(text)), TopNLines)
               => /\ vendor_candidates = <<>>
                  /\ (\E i \in 1..Len(text) : text[i] \notin Whitespace)
                         => IsFirstNonBlankLine(clean_ocr_text(text), vendor)

\* a text whose lines are all filtered out: chosen is its first line
C3_FirstLineChosen ==
    /\ pc = "date"
    /\ vendor_candidates = <<>>
    /\ vendor = <<"I", "N", "V", "O", "I", "C", "E", " ", "#", "1", "2", "3">>
    /\ Len(NonBlankLines(clean_ocr_text(text))) > 1

\* a substring of s next to no digit whose normalized value, formatted, is chosen
WholeNumberChosen(s, chosen) ==
    \E i \in 1..Len(s) : \E j \in i..Len(s) :
        /\ ~IsDigit(At(s, i - 1))
        /\ ~IsDigit(At(s, j + 1))
        /\ IsDigit(s[j])
        /\ parse_amount_to_float(SubSeq(s, i, j)).ok
        /\ Format2f(parse_amount_to_float(SubSeq(s, i, j))) = chosen

\* C4: extract_total never returns as chosen a value parsed from only a fragment
\* of a longer numeric substring: what it returns other than 'Not found' is the
\* value of a numeric substring that no further digit precedes or follows.
C4_NoPartialAmount ==
    (pc = "done" /\ total # NotFound) => WholeNumberChosen(clean_ocr_text(text), total)

\* a run of five leading digits, of which the last three are chosen
C4_FragmentChosen ==
    /\ pc = "done"
    /\ text = <<"1", "2", "3", "4", "5", ".", "6", "7">>
    /\ total = <<"3", "4", "5", ".", "6", "7">>

\* the indices of the tokens that normalize
Normalized(tokens) == {k \in 1..Len(tokens) : parse_amount_to_float(tokens[k]).ok}

\* chosen is the greatest normalized value of the tokens, 'Not found' without one
IsMaximumOf(chosen, tokens) ==
    IF Normalized(tokens) = {} THEN chosen = NotFound
    ELSE \E k \in Normalized(tokens) :
             /\ chosen = Format2f(parse_amount_to_float(tokens[k]))
             /\ \A j \in Normalized(tokens) :
                    ~FloatGreater(parse_amount_to_float(tokens[j]),
                                  parse_amount_to_float(tokens[k]))

\* the fallback of extract_total on the text s whose labelled match is the span m
FallbackResult(s, m) ==
    (m[1] = 0 \/ ~parse_amount_to_float(SubSeq(s, m[1], m[2])).ok)
    => /\ total_candidates
              = (IF m[1] # 0 THEN <<SubSeq(s, m[1], m[2])>> ELSE <<>>) \o MoneyFindAll(s)
       /\ IsMaximumOf(total, MoneyFindAll(s))
       /\ MoneyFindAll(s) = <<>> => total = NotFound /\ total_candidates = <<>>

\* C5: when extract_total finds no labelled total, or the labelled token fails
\* normalization, chosen is the maximum of the normalized values of all the
\* monetary tokens of the text, formatted to two decimals, tokens that fail
\* normalization left out; every such token is appended to the candidates in
\* text order; with no monetary token the result is ('Not found', []).
C5_FallbackMaximum ==
    pc = "done"
    => FallbackResult(clean_ocr_text(text), LabelledMatch(clean_ocr_text(text), GapMaxChars))

\* two unlabelled amounts: the greater is chosen, both are candidates
C5_GreaterChosen ==
    /\ pc = "done"
    /\ text = <<"$", "1", ",", "2", "3", "4", ".", "5", "6", " ", "a", "n", "d", " ", "$", "9", "9", "9", ".", "0", "0">>
    /\ total = <<"1", "2", "3", "4", ".", "5", "6">>
    /\ total_candidates = <<<<"$", "1", ",", "2", "3", "4", ".", "5", "6">>, <<"$", "9", "9", "9", ".", "0", "0">>>>

\* YYYY-MM-DD
IsIsoDate(d) ==
    /\ Len(d) = 10
    /\ \A i \in {1, 2, 3, 4, 6, 7, 9, 10} : IsDigit(d[i])
    /\ d[5] = "-" /\ d[8] = "-"

\* digits, a point and exactly two decimals
IsTwoDecimals(t) ==
    /\ Len(t) >= 4
    /\ t[Len(t) - 2] = "."
    /\ \A i \in 1..Len(t) : i # Len(t) - 2 => IsDigit(t[i])

\* C7: for every text the engine returns a complete result in which date is 'Not
\* found' or exactly YYYY-MM-DD, and total is 'Not found' or a number with exactly
\* two decimals, no thousands separator and no currency symbol.
C7_CanonicalFormats ==
    pc = "done" =>
        /\ date = NotFound \/ IsIsoDate(date)
        /\ total = NotFound \/ IsTwoDecimals(total)

\* a year below 1000, which strftime's %Y may leave unpadded
C7_ShortYear ==
    /\ pc = "done"
    /\ text = <<"1", "2", "/", "3", "1", "/", "0", "0", "9", "9">>
    /\ date = <<"9", "9", "-", "1", "2", "-", "3", "1">>

\* the lines of the first top_n_lines that pass the filters, by index
Eligible(lines, top_n_lines) ==
    {i \in 1..Min(Len(lines), top_n_lines) : ~Rejected(lines[i])}

\* the score of every line
Scores(lines) == Tuple([i \in 1..Len(lines) |-> LineScore(lines[i])])

\* the position of line i in the ranking: score descending, then index ascending
Rank(scores, eligible, i) ==
    1 + Cardinality({j \in eligible :
            scores[j] > scores[i] \/ (scores[j] = scores[i] /\ j < i)})

\* the candidates are the eligible lines, each at the position of its rank
IsRanking(lines, scores, eligible) ==
    /\ Len(vendor_candidates) = Cardinality(eligible)
    /\ \A i \in eligible : vendor_candidates[Rank(scores, eligible, i)] = lines[i]
    /\ \A i \in eligible : Rank(scores, eligible, i) = 1 => vendor = lines[i]

\* the candidates are the ranking of the lines that pass among the first top_n_lines
IsRankingOf(lines, top_n_lines) ==
    IsRanking(lines, Scores(lines), Eligible(lines, top_n_lines))

\* C8: the candidates of extract_vendor are exactly the lines, among the first
\* top_n_lines non-blank lines, that the three filters do not reject, ordered by
\* score descending and, for equal scores, by line position ascending; chosen is
\* the top-ranked line, so the earlier of two lines of equal score wins and a line
\* after the first top_n_lines non-blank lines is never a candidate.
C8_VendorRanking ==
    pc = "date"
    => IsRankingOf(NonBlankLines(clean_ocr_text(text)), TopNLines)

\* two lines of equal score among the first top_n_lines, a passing line after them
TieAndLateLine(lines) ==
    /\ \E i \in 1..TopNLines : \E j \in (i + 1)..Min(Len(lines), TopNLines) :
           /\ ~Rejected(lines[i]) /\ ~Rejected(lines[j])
           /\ LineScore(lines[i]) = LineScore(lines[j])
           /\ lines[i] # lines[j]
           /\ vendor = lines[i]
    /\ \E k \in (TopNLines + 1)..Len(lines) :
           ~Rejected(lines[k]) /\ \A c \in 1..Len(vendor_candidates) : vendor_candidates[c] # lines[k]

C8_TieAndLateLine == pc = "date" /\ TieAndLateLine(NonBlankLines(clean_ocr_text(text)))

(***************************************************************************)
(* BatchProcessor.py: its own extractors and process_invoices              *)
(***************************************************************************)
\* how many files the folder holds at most
MaxFiles == 2

\* how many pages a PDF has at most
MaxPages == 2

ErrorMark == <<"E", "R", "R", "O", "R">>

CsvHeader == <<<<"F", "i", "l", "e", "n", "a", "m", "e">>, <<"V", "e", "n", "d", "o", "r">>, <<"D", "a", "t", "e">>, <<"T", "o", "t", "a", "l">>>>

\* str.split("\n"), the first piece being the n characters before the first "\n"
RECURSIVE SplitNewline(_)
SplitAfter(s, n) == <<SubSeq(s, 1, n)>> \o SplitNewline(SubSeq(s, n + 2, Len(s)))

SplitNewline(s) ==
    IF \A i \in 1..Len(s) : s[i] # "\n" THEN <<s>>
    ELSE SplitAfter(s, RunLength(s, 1, {"\n"}, FALSE))

\* the first element of lines that is not blank, stripped
RECURSIVE FirstStripped(_)
FirstStripped(lines) ==
    IF lines = <<>> THEN Unknown
    ELSE IF Strip(Head(lines)) # <<>> THEN Strip(Head(lines))
    ELSE FirstStripped(Tail(lines))

\* BatchProcessor.extract_vendor
batch_extract_vendor(t) == FirstStripped(SplitNewline(t))

\* the ends of \b\d{4}[/-]\d{1,2}[/-]\d{1,2}\b at index i, in the order the
\* matcher reaches them
IsoDateEnds(s, i) ==
    Tuple([k \in 1..4 |->
        IF /\ WordBoundary(s, i) /\ DigitsAt(s, i, 4) /\ At(s, i + 4) \in DateSep
           /\ DigitsAt(s, i + 5, 2 - ((k - 1) \div 2))
           /\ At(s, i + 7 - ((k - 1) \div 2)) \in DateSep
           /\ DigitsAt(s, i + 8 - ((k - 1) \div 2), 2 - ((k - 1) % 2))
           /\ WordBoundary(s, i + 10 - ((k - 1) \div 2) - ((k - 1) % 2))
        THEN i + 9 - ((k - 1) \div 2) - ((k - 1) % 2)
        ELSE 0])

\* the month-name pattern right after each of the ends
MonthNameAfter(s, ends) ==
    FirstMatch(Tuple([k \in 1..Len(ends) |->
        IF ends[k] # 0 THEN MonthNameDateAt(s, ends[k] + 1) ELSE 0]))

\* the second element of BatchProcessor's date_patterns: the ISO pattern and the
\* month-name pattern, which the missing comma joins into one
IsoThenMonthNameAt(s, i) == MonthNameAfter(s, IsoDateEnds(s, i))

\* BatchProcessor's date_patterns, in order
BatchDatePatternMatch(s, n) ==
    CASE n = 1 -> Search(s, NumericDateAt)
      [] n = 2 -> Search(s, IsoThenMonthNameAt)

\* the loop over date_patterns from the n-th on
RECURSIVE BatchDateFromPattern(_, _, _)
BatchDateOrNext(s, n, pad, parsed) ==
    IF parsed.ok THEN strftime(parsed, pad) ELSE BatchDateFromPattern(s, n + 1, pad)

BatchParse(raw_date) == IF raw_date = <<>> THEN NoDate ELSE FirstParse(raw_date)

BatchDateFromPattern(s, n, pad) ==
    IF n > 2 THEN NotFound
    ELSE BatchDateOrNext(s, n, pad, BatchParse(BatchDatePatternMatch(s, n)))

\* BatchProcessor.extract_date
batch_extract_date(t, pad) == BatchDateFromPattern(clean_text_for_dates(t), 1, pad)

\* \d+[.,]\d{2} from index p: n digits first, then fewer
RECURSIVE BatchAmountDigits(_, _, _)
BatchAmountDigits(s, p, n) ==
    IF n < 1 THEN 0
    ELSE OrElse(IF At(s, p + n) \in {".", ","} /\ DigitsAt(s, p + n + 1, 2)
                THEN p + n + 2
                ELSE 0,
                BatchAmountDigits(s, p, n - 1))

\* [^\d]{0,10} then (\d+[.,]\d{2}): a gap of g first, then shorter ones
BatchGapThenAmount(s, p, g) ==
    FirstSpan(Tuple([k \in 1..(g + 1) |->
        SpanTo(p + g + 1 - k,
               BatchAmountDigits(s, p + g + 1 - k, RunLength(s, p + g + 1 - k, Digit, TRUE)))]))

\* one alternative kw of (?:TOTAL|Amount Due) at index i, then the gap and the amount
BatchKeywordAt(s, i, kw) ==
    IF MatchesAtCI(s, i, kw)
    THEN BatchGapThenAmount(s, i + Len(kw),
                            Min(10, RunLength(s, i + Len(kw), Digit, FALSE)))
    ELSE <<0, 0>>

\* re.search(total_pattern, text, re.IGNORECASE): the span of group 1
BatchTotalSearch(s) ==
    FirstSpan(Tuple([i \in 1..Len(s) |->
        SpanOrElse(BatchKeywordAt(s, i, <<"T", "O", "T", "A", "L">>), BatchKeywordAt(s, i, <<"A", "m", "o", "u", "n", "t", " ", "D", "u", "e">>))]))

\* [\d,]+\.\d{2} from index p: n characters first, then fewer
RECURSIVE BatchMoneyDigits(_, _, _)
BatchMoneyDigits(s, p, n) ==
    IF n < 1 THEN 0
    ELSE OrElse(IF At(s, p + n) = "." /\ DigitsAt(s, p + n + 1, 2) THEN p + n + 2 ELSE 0,
                BatchMoneyDigits(s, p, n - 1))

\* \$[\d,]+\.\d{2} anchored at index p
BatchMoneyAt(s, p) ==
    IF At(s, p) = "$"
    THEN BatchMoneyDigits(s, p + 1, RunLength(s, p + 1, Digit \cup {","}, TRUE))
    ELSE 0

\* re.findall(money_pattern, text)
BatchMoneyFindAll(s) ==
    Substrings(s, FindAllSpans(Tuple([i \in 1..Len(s) |-> BatchMoneyAt(s, i)]), 1))

\* money_matches[-1] if money_matches else "Not found"
LastOrNotFound(money_matches) ==
    IF money_matches # <<>> THEN money_matches[Len(money_matches)] ELSE NotFound

\* BatchProcessor.extract_total after re.search, m being the span of group 1
BatchTotalFrom(s, m) ==
    IF m[1] # 0 THEN SubSeq(s, m[1], m[2])
    ELSE LastOrNotFound(BatchMoneyFindAll(s))

\* BatchProcessor.extract_total
batch_extract_total(t) == BatchTotalFrom(t, BatchTotalSearch(t))

\* filename.endswith(".pdf"), without the lower()
IsPdfCaseSensitive(filename) == EndsWith(filename, <<".", "p", "d", "f">>)

\* filename.lower().endswith(".pdf")
IsPdf(filename) == EndsWith(LowerStr(filename), <<".", "p", "d", "f">>)

\* [filename, "ERROR", "ERROR", "ERROR"]
ErrorRow(filename) == <<filename, ErrorMark, ErrorMark, ErrorMark>>

(***************************************************************************)
(* The folders process_invoices runs on                                    *)
(***************************************************************************)
FileNames == {<<"a", ".", "p", "d", "f">>, <<"B", ".", "P", "d", "f">>, <<"n", "o", "t", "e", "s", ".", "t", "x", "t">>, <<"p", "d", "f">>}

PageTexts == {
    <<"A", "c", "m", "e", " ", "C", "o", "r", "p", "\n", "I", "n", "v", "o", "i", "c", "e", " ", "5", "/", "1", "/", "2", "0", "1", "4", "\n", "T", "O", "T", "A", "L", ":", " ", "1", "2", ".", "5", "0", "\n">>,
    <<"\r", "\n", "B", "e", "t", "a", " ", "C", "o", "\r", "2", "0", "1", "4", "-", "0", "5", "-", "0", "1", " ", "J", "a", "n", " ", "5", ",", " ", "2", "0", "1", "4", "\n", "$", "5", ".", "0", "0", " ", "$", "7", ",", "0", "0", "0", ".", "2", "5">> }

\* a page: what image_to_string returns for it, or that it raises
Pages == [ok : {TRUE}, ocr : PageTexts] \cup {[ok |-> FALSE, ocr |-> <<>>]}

\* a file: its name, whether convert_from_path can read it, and its pages
Unreadable(name) == [filename |-> name, readable |-> FALSE, pages |-> <<>>]

Files ==
    {Unreadable(name) : name \in FileNames}
    \cup {[filename |-> name, readable |-> TRUE, pages |-> ps] :
            name \in {n \in FileNames : IsPdf(n)}, ps \in SeqsUpTo(Pages, MaxPages)}

\* a directory lists each name once
Folders ==
    {fs \in SeqsUpTo(Files, MaxFiles) :
        \A i \in 1..Len(fs) : \A j \in 1..Len(fs) :
            i # j => fs[i].filename # fs[j].filename}

(***************************************************************************)
(* process_invoices                                                        *)
(***************************************************************************)
\* the file the loop takes next
NextFile == folder[file_index + 1]

\* for filename in os.listdir(folder): a name that is no PDF is skipped
BatchSkipFile ==
    /\ pc = "for_filename"
    /\ file_index < Len(folder)
    /\ ~IsPdf(NextFile.filename)
    /\ file_index' = file_index + 1
    /\ UNCHANGED <<pc, text, resultVars, folder, images, results, output_csv, httpVars>>

\* images = convert_from_path(filepath); text = ""
BatchConvert ==
    /\ pc = "for_filename"
    /\ file_index < Len(folder)
    /\ IsPdf(NextFile.filename)
    /\ NextFile.readable
    /\ file_index' = file_index + 1
    /\ images' = NextFile.pages
    /\ text' = <<>>
    /\ pc' = "for_img"
    /\ UNCHANGED <<resultVars, folder, results, output_csv, httpVars>>

\* convert_from_path raises: the except block appends the error row
BatchConvertRaises ==
    /\ pc = "for_filename"
    /\ file_index < Len(folder)
    /\ IsPdf(NextFile.filename)
    /\ ~NextFile.readable
    /\ file_index' = file_index + 1
    /\ results' = Append(results, ErrorRow(NextFile.filename))
    /\ UNCHANGED <<pc, text, resultVars, folder, images, output_csv, httpVars>>

\* text += pytesseract.image_to_string(img, config="--psm 6") + "\n"
BatchOcrPage ==
    /\ pc = "for_img"
    /\ images # <<>>
    /\ Head(images).ok
    /\ text' = text \o Head(images).ocr \o <<"\n">>
    /\ images' = Tail(images)
    /\ UNCHANGED <<pc, resultVars, folder, file_index, results, output_csv, httpVars>>

\* image_to_string raises: the except block appends the error row
BatchOcrRaises ==
    /\ pc = "for_img"
    /\ images # <<>>
    /\ ~Head(images).ok
    /\ results' = Append(results, ErrorRow(folder[file_index].filename))
    /\ images' = <<>>
    /\ pc' = "for_filename"
    /\ UNCHANGED <<text, resultVars, folder, file_index, output_csv, httpVars>>

\* the three extractors and results.append([filename, vendor, date, total])
BatchExtract ==
    /\ pc = "for_img"
    /\ images = <<>>
    /\ \E pad \in BOOLEAN :
           results' = Append(results, <<folder[file_index].filename,
                                        batch_extract_vendor(text),
                                        batch_extract_date(text, pad),
                                        batch_extract_total(text)>>)
    /\ pc' = "for_filename"
    /\ UNCHANGED <<text, resultVars, folder, file_index, images, output_csv, httpVars>>

\* writer.writerow(["Filename", "Vendor", "Date", "Total"]); writer.writerows(results)
BatchSave ==
    /\ pc = "for_filename"
    /\ file_index = Len(folder)
    /\ output_csv' = <<CsvHeader>> \o results
    /\ pc' = "saved"
    /\ UNCHANGED <<text, resultVars, folder, file_index, images, results, httpVars>>

InitBatch ==
    /\ pc = "for_filename"
    /\ text = <<>>
    /\ NoResults
    /\ folder \in Folders
    /\ file_index = 0
    /\ images = <<>>
    /\ results = <<>>
    /\ output_csv = <<>>
    /\ HttpIdle

NextBatch ==
    \/ BatchSkipFile
    \/ BatchConvert
    \/ BatchConvertRaises
    \/ BatchOcrPage
    \/ BatchOcrRaises
    \/ BatchExtract
    \/ BatchSave

SpecBatch == InitBatch /\ [][NextBatch]_vars

\* the name ends in ".pdf", in any letter case
HasPdfSuffix(name) ==
    /\ Len(name) >= 4
    /\ name[Len(name) - 3] = "."
    /\ name[Len(name) - 2] \in {"p", "P"}
    /\ name[Len(name) - 1] \in {"d", "D"}
    /\ name[Len(name)] \in {"f", "F"}

\* rasterization of the file or the reading of one of its pages raises
Raises(file) == ~file.readable \/ \E k \in 1..Len(file.pages) : ~file.pages[k].ok

\* the files with a PDF name among the first n of the folder, in listing order
PdfFiles(n) == SelectSeq(SubSeq(folder, 1, n), LAMBDA f : HasPdfSuffix(f.filename))

\* one row for every PDF file, in listing order, an error row for each that raises
RowPerPdf(pdfs) ==
    /\ Len(results) = Len(pdfs)
    /\ \A k \in 1..Len(pdfs) :
           /\ Len(results[k]) = 4
           /\ results[k][1] = pdfs[k].filename
           /\ Raises(pdfs[k]) <=> results[k] = <<pdfs[k].filename, <<"E", "R", "R", "O", "R">>, <<"E", "R", "R", "O", "R">>, <<"E", "R", "R", "O", "R">>>>

\* C6: process_invoices produces exactly one row for every file whose name ends
\* in '.pdf' in any letter case and none for the others, in listing order; when
\* rasterization or OCR of a file raises, its row is [filename, 'ERROR', 'ERROR',
\* 'ERROR'], the later files are still processed (each time the loop is back at
\* its head, every file taken so far has its row), and the output is written,
\* after the last file, with the header Filename, Vendor, Date, Total.
C6_RowPerPdf ==
    /\ pc \in {"for_filename", "saved"} => RowPerPdf(PdfFiles(file_index))
    /\ pc = "saved" =>
           /\ file_index = Len(folder)
           /\ output_csv = <<<<<<"F", "i", "l", "e", "n", "a", "m", "e">>, <<"V", "e", "n", "d", "o", "r">>, <<"D", "a", "t", "e">>, <<"T", "o", "t", "a", "l">>>>>> \o results
    /\ pc # "saved" => output_csv = <<>>

\* a PDF that raises, listed before one that is read
C6_ErrorThenRow ==
    /\ pc = "saved"
    /\ Len(folder) = 2
    /\ Len(results) = 2
    /\ results[1] = <<folder[1].filename, <<"E", "R", "R", "O", "R">>, <<"E", "R", "R", "O", "R">>, <<"E", "R", "R", "O", "R">>>>
    /\ results[2][2] # <<"E", "R", "R", "O", "R">>

(***************************************************************************)
(* main.py as a service: the require_api_key middleware and the routes     *)
(***************************************************************************)
\* how many requests the service answers at most
MaxRequests == 2

\* the index after the run of characters of set that starts at index p
After(s, p, set) == p + RunLength(s, p, set, TRUE)

\* \n? at the end of the marker: the last index of the match
MarkerEnd(s, p) == IF At(s, p) = "\n" THEN p ELSE p - 1

\* -{2,}\n?
MarkerTail(s, p) ==
    IF After(s, p, {"-"}) - p >= 2 THEN MarkerEnd(s, After(s, p, {"-"})) ELSE 0

\* \d+\s*-{2,}\n?
MarkerNumber(s, p) ==
    IF IsDigit(At(s, p)) THEN MarkerTail(s, After(s, After(s, p, Digit), Whitespace)) ELSE 0

\* Page\s*\d+\s*-{2,}\n? under re.IGNORECASE
MarkerPage(s, p) ==
    IF MatchesAtCI(s, p, <<"P", "a", "g", "e">>) THEN MarkerNumber(s, After(s, p + 4, Whitespace)) ELSE 0

\* -{2,}\s*Page\s*\d+\s*-{2,}\n? : each run is followed by a character outside
\* its class, so every quantifier takes its whole run
MarkerDashes(s, p) ==
    IF After(s, p, {"-"}) - p >= 2
    THEN MarkerPage(s, After(s, After(s, p, {"-"}), Whitespace))
    ELSE 0

\* \n?-{2,}\s*Page\s*\d+\s*-{2,}\n? anchored at index i: with the \n first
PageMarkerAt(s, i) ==
    OrElse(IF At(s, i) = "\n" THEN MarkerDashes(s, i + 1) ELSE 0, MarkerDashes(s, i))

\* s from index from on, with the spans from the k-th on replaced by "\n"
RECURSIVE ReplaceSpans(_, _, _, _)
ReplaceSpans(s, spans, k, from) ==
    IF k > Len(spans) THEN SubSeq(s, from, Len(s))
    ELSE SubSeq(s, from, spans[k][1] - 1) \o <<"\n">>
         \o ReplaceSpans(s, spans, k + 1, spans[k][2] + 1)

\* re.sub(r'\n?-{2,}\s*Page\s*\d+\s*-{2,}\n?', '\n', text, flags=re.IGNORECASE)
strip_page_markers(t) ==
    ReplaceSpans(t, FindAllSpans(Tuple([i \in 1..Len(t) |-> PageMarkerAt(t, i)]), 1), 1, 1)

\* extracted_text += f"\n--- Page {i + 1} ---\n" + image_to_string(img), page by page
RECURSIVE PdfText(_, _)
PdfText(pages, i) ==
    IF i > Len(pages) THEN <<>>
    ELSE <<"\n", "-", "-", "-", " ", "P", "a", "g", "e", " ">> \o DigitsOf(i, 1) \o <<" ", "-", "-", "-", "\n">> \o pages[i] \o PdfText(pages, i + 1)

\* the text parse_document reads from the upload: page by page with markers
\* from a PDF, as it is from an image
ExtractedText(upload) ==
    IF EndsWith(LowerStr(upload.filename), <<".", "p", "d", "f">>) THEN PdfText(upload.pages, 1)
    ELSE upload.pages[1]

\* the paths the middleware lets through without a key
open_paths == {"/ping", "/docs", "/openapi.json"}

InvoicePaths == {"/invoices/1", "/invoices/2"}

Paths == open_paths \cup {"/parse", "/invoices"} \cup InvoicePaths

\* invoice_id of a path /invoices/{invoice_id}
InvoiceId(path) == IF path = "/invoices/1" THEN 1 ELSE 2

\* the values of API_KEY in the environment, None when it is not set
ServerKeys == {PyNone, PyStr(<<"s", "e", "c", "r", "e", "t">>)}

\* the values of the x-api-key header, None when the request has none
ClientKeys == {PyNone, PyStr(<<"s", "e", "c", "r", "e", "t">>), PyStr(<<"w", "r", "o", "n", "g">>)}

NoUpload == [filename |-> <<>>, readable |-> FALSE, pages |-> <<>>]

\* the uploads: a file name, whether rasterization and OCR succeed, and what
\* image_to_string returns for each page
Uploads == {
    [filename |-> <<"i", "n", "v", ".", "P", "D", "F">>, readable |-> TRUE,
     pages |-> <<<<"A", "c", "m", "e", " ", "C", "o", "r", "p", " ", "L", "L", "C", "\n", "I", "n", "v", "o", "i", "c", "e", " ", "D", "a", "t", "e", ":", " ", "M", "a", "y", " ", "1", ",", " ", "2", "0", "1", "4", "\n", "T", "O", "T", "A", "L", " ", "D", "U", "E", " ", "$", "1", "2", "3", ".", "4", "5">>,
                 <<"-", "-", " ", "p", "a", "g", "e", " ", "7", " ", "-", "-", "\n", "S", "u", "b", "t", "o", "t", "a", "l", ":", " ", "$", "8", "0", ".", "0", "0", "\n">>>>],
    [filename |-> <<"s", "c", "a", "n", ".", "p", "n", "g">>, readable |-> TRUE,
     pages |-> <<<<" ", "W", "i", "d", "g", "e", "t", "s", "\n", "1", "2", "/", "3", "1", "/", "0", "0", "9", "9", " ", "-", "-", "-", "-", "-", "P", "A", "G", "E", "1", "2", "-", "-", "\n", "\n", "$", "1", ",", "2", "3", "4", ".", "5", "6", " ", "a", "n", "d", " ", "$", "9", "9", "9", ".", "0", "0", " ">>>>],
    [filename |-> <<"e", "m", "p", "t", "y", ".", "p", "d", "f">>, readable |-> TRUE, pages |-> <<>>],
    [filename |-> <<"b", "r", "o", "k", "e", "n", ".", "p", "d", "f">>, readable |-> FALSE, pages |-> <<>>] }

Requests ==
    [path : Paths \ {"/parse"}, client_key : ClientKeys, upload : {NoUpload}]
    \cup [path : {"/parse"}, client_key : ClientKeys, upload : Uploads]

\* the response is sent: the service waits for the next request
Respond(status) ==
    /\ response' = status
    /\ served' = served + 1
    /\ pc' = "idle"

\* a request arrives
ReceiveRequest ==
    /\ pc = "idle"
    /\ served < MaxRequests
    /\ request' \in Requests
    /\ response' = 0
    /\ handler_called' = FALSE
    /\ pc' = "require_api_key"
    /\ text' = <<>>
    /\ vendor' = <<>>
    /\ vendor_candidates' = <<>>
    /\ date' = <<>>
    /\ total' = <<>>
    /\ total_candidates' = <<>>
    /\ UNCHANGED <<api_key, open_sessions, db, served, batchVars>>

\* the route handler of a path
Route(path) ==
    CASE path = "/ping" -> "ping"
      [] path = "/parse" -> "parse_document"
      [] path = "/invoices" -> "get_invoices"
      [] path \in InvoicePaths -> "get_invoice"
      [] OTHER -> "docs"

\* the middleware: 401 when the path is not open and the keys differ, where
\* None != None is False; call_next(request) otherwise
require_api_key ==
    /\ pc = "require_api_key"
    /\ IF request.path \notin open_paths /\ request.client_key # api_key
       THEN /\ Respond(401)
            /\ UNCHANGED handler_called
       ELSE /\ handler_called' = TRUE
            /\ pc' = Route(request.path)
            /\ UNCHANGED <<response, served>>
    /\ UNCHANGED <<api_key, request, open_sessions, db, engineVars, batchVars>>

ping ==
    /\ pc = "ping"
    /\ Respond(200)
    /\ UNCHANGED <<api_key, request, handler_called, open_sessions, db, engineVars, batchVars>>

\* /docs and /openapi.json, which FastAPI serves
docs ==
    /\ pc = "docs"
    /\ Respond(200)
    /\ UNCHANGED <<api_key, request, handler_called, open_sessions, db, engineVars, batchVars>>

\* parse_document up to db = SessionLocal(): the text is read, the markers are
\* stripped, the three extractors run and the session is opened
parse_document ==
    /\ pc = "parse_document"
    /\ request.upload.readable
    /\ text' = strip_page_markers(ExtractedText(request.upload))
    /\ vendor' = extract_vendor(text', TopNLines)[1]
    /\ vendor_candidates' = extract_vendor(text', TopNLines)[2]
    /\ \E pad \in BOOLEAN : date' = extract_date(text', pad)
    /\ total' = extract_total(text', GapMaxChars)[1]
    /\ total_candidates' = extract_total(text', GapMaxChars)[2]
    /\ open_sessions' = open_sessions + 1
    /\ pc' = "parse_document_save"
    /\ UNCHANGED <<api_key, request, response, handler_called, db, served, batchVars>>

\* rasterization or OCR raises: the except block answers 500
parse_document_raises ==
    /\ pc = "parse_document"
    /\ ~request.upload.readable
    /\ Respond(500)
    /\ UNCHANGED <<api_key, request, handler_called, open_sessions, db, engineVars, batchVars>>

\* the row db.add(record) inserts
Record ==
    [id |-> Len(db) + 1, filename |-> request.upload.filename, vendor |-> vendor,
     date |-> date, total |-> total, extracted_text |-> Strip(text)]

\* db.add(record); db.commit(); db.refresh(record); db.close(); the response
parse_document_save ==
    /\ pc = "parse_document_save"
    /\ db' = Append(db, Record)
    /\ open_sessions' = open_sessions - 1
    /\ Respond(200)
    /\ UNCHANGED <<api_key, request, handler_called, engineVars, batchVars>>

\* add, commit or refresh raises: the except block answers 500, and db.close()
\* is not reached
parse_document_save_raises ==
    /\ pc = "parse_document_save"
    /\ Respond(500)
    /\ UNCHANGED <<api_key, request, handler_called, open_sessions, db, engineVars, batchVars>>

\* db = SessionLocal(); rows = db.query(Invoice).all(); db.close()
get_invoices ==
    /\ pc = "get_invoices"
    /\ Respond(200)
    /\ UNCHANGED <<api_key, request, handler_called, open_sessions, db, engineVars, batchVars>>

\* the query raises after SessionLocal(): db.close() is not reached, and the
\* exception leaves the handler (500 from the framework)
get_invoices_raises ==
    /\ pc = "get_invoices"
    /\ open_sessions' = open_sessions + 1
    /\ Respond(500)
    /\ UNCHANGED <<api_key, request, handler_called, db, engineVars, batchVars>>

\* db = SessionLocal(); record = ...first(); db.close(); 404 without a record
get_invoice ==
    /\ pc = "get_invoice"
    /\ IF \E k \in 1..Len(db) : db[k].id = InvoiceId(request.path)
       THEN Respond(200)
       ELSE Respond(404)
    /\ UNCHANGED <<api_key, request, handler_called, open_sessions, db, engineVars, batchVars>>

\* the query raises after SessionLocal(): db.close() is not reached
get_invoice_raises ==
    /\ pc = "get_invoice"
    /\ open_sessions' = open_sessions + 1
    /\ Respond(500)
    /\ UNCHANGED <<api_key, request, handler_called, db, engineVars, batchVars>>

InitHttp ==
    /\ pc = "idle"
    /\ text = <<>>
    /\ NoResults
    /\ BatchIdle
    /\ api_key \in ServerKeys
    /\ request = NoRequest
    /\ response = 0
    /\ handler_called = FALSE
    /\ open_sessions = 0
    /\ db = <<>>
    /\ served = 0

NextHttp ==
    \/ ReceiveRequest
    \/ require_api_key
    \/ ping
    \/ docs
    \/ parse_document
    \/ parse_document_raises
    \/ parse_document_save
    \/ parse_document_save_raises
    \/ get_invoices
    \/ get_invoices_raises
    \/ get_invoice
    \/ get_invoice_raises

SpecHttp == InitHttp /\ [][NextHttp]_vars

\* C9: every persistence session a request handler opens is released before the
\* handler returns on every path, including when the add, commit or refresh or
\* the query raises: once a request is answered, no session remains open.
C9_SessionsReleased == pc = "idle" => open_sessions = 0

\* the commit of POST /parse raises: 500 is answered and the session stays open
C9_SessionLeftOpen ==
    /\ pc = "idle"
    /\ request.path = "/parse"
    /\ response = 500
    /\ request.upload.readable
    /\ open_sessions = 1

\* the request carries an x-api-key header equal to the configured API_KEY
CarriesConfiguredKey ==
    /\ ~request.client_key.is_none
    /\ ~api_key.is_none
    /\ request.client_key.value = api_key.value

\* C10: for a request whose path is not /ping, /docs or /openapi.json the
\* middleware invokes the route handler only if the request carries an x-api-key
\* header equal to the configured API_KEY; with the header missing or different
\* the answer is 401 and the handler is not reached, also when API_KEY is not set.
C10_KeyRequired ==
    (request.path \in Paths \ {"/ping", "/docs", "/openapi.json"} /\ ~CarriesConfiguredKey)
    => /\ ~handler_called
       /\ response \in {0, 401}

\* API_KEY is not set and the request has no x-api-key header: the handler runs
C10_NoKeyNoHeader ==
    /\ request.path = "/invoices"
    /\ api_key.is_none
    /\ request.client_key.is_none
    /\ handler_called
    /\ response = 200

====
